---- MODULE Spec2Model ----
(***************************************************************************)
(* Model of multi_trainer.py: the multi-agent PPO policy functions         *)
(* compute_gae_for_sample_batch, ppo_surrogate_loss, kl_and_loss_stats and *)
(* KLCoeffMixin.update_kl.                                                 *)
(*                                                                         *)
(* Floating point numbers are modelled as exact rationals [n, d] in lowest *)
(* terms; d = 0 stands for a non-finite value (NaN).                       *)
(***************************************************************************)
EXTENDS Integers, Sequences, FiniteSets, TLC

\* config:     the policy's configuration, fixed at construction
\* kl_coeff, kl_target: the fields KLCoeffMixin keeps on the policy
\* diag:       the diagnostics ppo_surrogate_loss stores on the policy
\* call:       the last operation called, with its arguments and its result
\* n_up, n_down: how many update_kl calls so far had a measured KL above
\*             2*kl_target, and below 0.5*kl_target
VARIABLES config, kl_coeff, kl_target, diag, call, n_up, n_down

vars == <<config, kl_coeff, kl_target, diag, call, n_up, n_down>>

(***************************************************************************)
(* Bounds of the model.                                                    *)
(***************************************************************************)
\* at most this many update_kl calls change the coefficient in one run
MaxUpdates == 3
\* longest trajectory segment
MaxT == 2
\* longest padded sequence of a training batch
MaxSeqLen == 2

(***************************************************************************)
(* Rational arithmetic standing for the float arithmetic of numpy/torch.   *)
(***************************************************************************)
Abs(x) == IF x < 0 THEN -x ELSE x

RECURSIVE GCD(_, _)
GCD(a, b) == IF b = 0 THEN a ELSE GCD(b, a % b)

NaN == [n |-> 0, d |-> 0]

IsNaN(x) == x.d = 0

Rat(n, d) ==
    IF d = 0 THEN NaN
    ELSE LET g == GCD(Abs(n), Abs(d))
             s == IF d < 0 THEN -1 ELSE 1
         IN  [n |-> (s * n) \div g, d |-> (s * d) \div g]

R(i) == [n |-> i, d |-> 1]

\* over the least common denominator, to keep the integers small
RAdd(x, y) == IF IsNaN(x) \/ IsNaN(y) THEN NaN
              ELSE LET g == GCD(x.d, y.d)
                   IN  Rat(x.n * (y.d \div g) + y.n * (x.d \div g),
                           (x.d \div g) * y.d)

RNeg(x) == [n |-> -x.n, d |-> x.d]

RSub(x, y) == RAdd(x, RNeg(y))

RMul(x, y) == IF IsNaN(x) \/ IsNaN(y) THEN NaN
              ELSE LET g1 == GCD(Abs(x.n), y.d)
                       g2 == GCD(Abs(y.n), x.d)
                   IN  Rat((x.n \div g1) * (y.n \div g2),
                           (x.d \div g2) * (y.d \div g1))

\* torch true division: 0/0 is NaN (any division by zero is non-finite)
RDiv(x, y) == IF IsNaN(x) \/ IsNaN(y) \/ y.n = 0 THEN NaN
              ELSE Rat(x.n * y.d, x.d * y.n)

\* comparisons with NaN are false, as in IEEE arithmetic
RLess(x, y) == ~IsNaN(x) /\ ~IsNaN(y) /\ x.n * y.d < y.n * x.d

RGreater(x, y) == RLess(y, x)

RMin(x, y) == IF IsNaN(x) \/ IsNaN(y) THEN NaN ELSE IF RLess(y, x) THEN y ELSE x

RMax(x, y) == IF IsNaN(x) \/ IsNaN(y) THEN NaN ELSE IF RLess(x, y) THEN y ELSE x

RClamp(x, lo, hi) == RMin(RMax(x, lo), hi)

RECURSIVE RSum(_)
RSum(s) == IF s = <<>> THEN R(0) ELSE RAdd(s[1], RSum(Tail(s)))

RECURSIVE RPow(_, _)
RPow(x, k) == IF k = 0 THEN R(1) ELSE RMul(x, RPow(x, k - 1))

(***************************************************************************)
(* KLCoeffMixin                                                            *)
(***************************************************************************)
NoCall == [op |-> "none"]

\* update_kl with the upper threshold tested by >= instead of >
update_kl_ge(coeff, target, sampled_kl) ==
    LET c == IF ~RLess(sampled_kl, RMul(R(2), target)) /\ ~IsNaN(sampled_kl)
               THEN RMul(coeff, Rat(3, 2))
             ELSE IF RLess(sampled_kl, RMul(Rat(1, 2), target))
               THEN RMul(coeff, Rat(1, 2))
             ELSE coeff
    IN  [kl_coeff |-> c, ret |-> c]

\* update_kl with "kl_coeff = 0.5" for "kl_coeff *= 0.5"
update_kl_assign(coeff, target, sampled_kl) ==
    LET c == IF RGreater(sampled_kl, RMul(R(2), target))
               THEN RMul(coeff, Rat(3, 2))
             ELSE IF RLess(sampled_kl, RMul(Rat(1, 2), target))
               THEN Rat(1, 2)
             ELSE coeff
    IN  [kl_coeff |-> c, ret |-> c]

\* KLCoeffMixin.update_kl, lines 308-315: the coefficient stored by one call
\* and the value returned
update_kl(coeff, target, sampled_kl) ==
    LET c == IF RGreater(sampled_kl, RMul(R(2), target))
               THEN RMul(coeff, Rat(3, 2))
             ELSE IF RLess(sampled_kl, RMul(Rat(1, 2), target))
               THEN RMul(coeff, Rat(1, 2))
             ELSE coeff
    IN  [kl_coeff |-> c, ret |-> c]

\* configured kl_target and initial kl_coeff values
KLTargets == {Rat(1, 100)}

KLCoeffInits == {R(0), Rat(1, 5), R(1)}

\* measured KL values handed to update_kl: around both thresholds, and NaN
KLSamples == {R(0), Rat(3, 1000), Rat(5, 1000), Rat(1, 100), Rat(2, 100),
              Rat(3, 100), NaN}

(***************************************************************************)
(* Trajectory segments handed to compute_gae_for_sample_batch.             *)
(***************************************************************************)
\* the fixed set of co-located agents: for i in ["0", "1", "2"]
NumAgents == 3

AgentKey(k) == <<"0", "1", "2", "3">>[k]

\* widths of the action vector and of the value-prediction vector
Widths == {NumAgents - 1, NumAgents, NumAgents + 1}

\* policy.config["gamma"], policy.config["lambda"]
gamma == Rat(1, 2)

lambda == Rat(1, 2)

\* one entry of infos: a dict with decomposed rewards for the agents in
\* `agents` (reward of agent k is r + (k-1)*p), or a dict without "rewards"
InfoEntry(kind, r, p) ==
    IF kind = "rewards3"
      THEN [rewards |-> [a \in {AgentKey(k) : k \in 1..NumAgents} |->
                           R(r + p * ((CHOOSE k \in 1..NumAgents : AgentKey(k) = a) - 1))]]
    ELSE IF kind = "rewards2"
      THEN [rewards |-> [a \in {AgentKey(k) : k \in 1..(NumAgents - 1)} |->
                           R(r + p * ((CHOOSE k \in 1..NumAgents : AgentKey(k) = a) - 1))]]
    ELSE [other |-> R(r)]

InfoKinds == {"float32", "rewards3", "rewards2", "norewards"}

\* the placeholder infos of the trajectory view API is a zero float32 array
MkInfos(kind, rew, p) ==
    IF kind = "float32"
      THEN [dtype |-> "float32", data |-> [t \in 1..Len(rew) |-> R(0)]]
      ELSE [dtype |-> "object",
            data |-> [t \in 1..Len(rew) |-> InfoEntry(kind, rew[t], p)]]

MkSegment(rew, kind, p, q, wa, wv, done) ==
    [ rewards   |-> [t \in 1..Len(rew) |-> R(rew[t])],
      infos     |-> MkInfos(kind, rew, p),
      actions   |-> [t \in 1..Len(rew) |-> [j \in 1..wa |-> 10 * t + j]],
      vf_preds  |-> [t \in 1..Len(rew) |->
                       [j \in 1..wv |-> IF q = 1 THEN R(j) ELSE R(t * j - 2)]],
      dones     |-> [t \in 1..Len(rew) |-> (t = Len(rew)) /\ done],
      \* what model.value_function()[0] gives on the last observation
      value_out |-> [j \in 1..wv |-> R(j + 3)] ]

\* the shared reward sequences of the segments
RewardSeqs == UNION {[1..T -> {0, 1}] : T \in 1..MaxT}

(***************************************************************************)
(* compute_gae_for_sample_batch                                            *)
(***************************************************************************)
\* SampleBatch.concat_samples over one-row batches built from dicts: the
\* columns of the first dict, each the sequence of that key's values
concat_samples(dicts) ==
    LET keys == DOMAIN dicts[1]
    IN  IF \E t \in 1..Len(dicts) : ~(keys \subseteq DOMAIN dicts[t])
          THEN [status |-> "raised", error |-> "KeyError", cols |-> <<>>]
          ELSE [status |-> "ok", error |-> "",
                cols |-> [k \in keys |-> [t \in 1..Len(dicts) |-> dicts[t][k]]]]

\* lines 57-71: samplebatch_infos_rewards (status "none" stands for None)
infos_rewards(sample_batch) ==
    IF sample_batch.infos.dtype = "float32"
      THEN [status |-> "none", error |-> "", cols |-> <<>>]
    ELSE LET samplebatch_infos == concat_samples(sample_batch.infos.data)
         IN  IF samplebatch_infos.status = "raised" THEN samplebatch_infos
             ELSE IF "rewards" \notin DOMAIN samplebatch_infos.cols
               THEN [status |-> "raised", error |-> "KeyError", cols |-> <<>>]
             ELSE concat_samples(samplebatch_infos.cols["rewards"])

\* ValueNetworkMixin: what policy._value(**input_dict) returns; the float 0.0
\* (modelled as status "float") when config["use_gae"] is false
value(cfg, sample_batch) ==
    IF cfg.use_gae
      THEN [status |-> "tensor", vec |-> sample_batch.value_out]
      ELSE [status |-> "float", vec |-> <<>>]

RECURSIVE discount_cumsum(_, _, _)
\* y[t] = x[t] + discount * y[t+1], from position t on
discount_cumsum(x, discount, t) ==
    IF t > Len(x) THEN R(0)
    ELSE RAdd(x[t], RMul(discount, discount_cumsum(x, discount, t + 1)))

\* ray.rllib.evaluation.postprocessing.compute_advantages, called at lines
\* 113-122; the library is not part of the sources and is modelled as the
\* specification describes it (section 4.1, step 2c)
compute_advantages(rewards, vf_preds, last_r, use_gae, use_critic) ==
    LET T == Len(rewards)
        V == [t \in 1..(T + 1) |->
                IF t = T + 1 THEN last_r
                ELSE IF use_critic THEN vf_preds[t] ELSE R(0)]
        delta_t == [t \in 1..T |->
                      RSub(RAdd(rewards[t], RMul(gamma, V[t + 1])), V[t])]
        rewards_plus_v == [t \in 1..(T + 1) |->
                             IF t = T + 1 THEN last_r ELSE rewards[t]]
        adv == [t \in 1..T |->
                  IF use_gae
                    THEN discount_cumsum(delta_t, RMul(gamma, lambda), t)
                    ELSE RSub(discount_cumsum(rewards_plus_v, gamma, t), V[t])]
    IN  [advantages    |-> adv,
         value_targets |-> [t \in 1..T |-> RAdd(adv[t], V[t])]]

\* lines 86-90: the reward column of agent k's sub-batch
agent_rewards(sample_batch, ir, k) ==
    IF ir.status # "none" THEN ir.cols[AgentKey(k)] ELSE sample_batch.infos.data

\* np.stack over the sub-batches in reverse order
stack_reversed(batches, col, T) ==
    [t \in 1..T |->
       [i \in 1..Len(batches) |-> batches[Len(batches) + 1 - i][col][t]]]

\* lines 124-131: np.stack([b[col] for b in batches], axis=-1)
stack(batches, col, T) ==
    [t \in 1..T |-> [i \in 1..Len(batches) |-> batches[i][col][t]]]

\* the bootstrap value taken from the value function whatever dones[-1] is
bootstrap_always_value(cfg, sample_batch, k) ==
    LET val == value(cfg, sample_batch)
    IN  IF val.status = "float"
          THEN [error |-> "TypeError", last_r |-> NaN, value_calls |-> 1]
        ELSE IF k > Len(val.vec)
          THEN [error |-> "IndexError", last_r |-> NaN, value_calls |-> 1]
        ELSE [error |-> "", last_r |-> val.vec[k], value_calls |-> 1]

\* lines 98-109: the bootstrap value last_r of agent k and the number of
\* policy._value calls made for it.  The float 0.0 cannot be indexed.
bootstrap(cfg, sample_batch, k) ==
    LET val == value(cfg, sample_batch)
    IN  IF sample_batch.dones[Len(sample_batch.dones)]
          THEN [error |-> "", last_r |-> R(0), value_calls |-> 0]
        ELSE IF val.status = "float"
          THEN [error |-> "TypeError", last_r |-> NaN, value_calls |-> 1]
        ELSE IF k > Len(val.vec)
          THEN [error |-> "IndexError", last_r |-> NaN, value_calls |-> 1]
        ELSE [error |-> "", last_r |-> val.vec[k], value_calls |-> 1]

\* lines 124-133: the batch returned, the four stacked columns overwritten
stacked_batch(sample_batch, batches) ==
    LET T == Len(sample_batch.rewards)
    IN  [ rewards       |-> stack(batches, "rewards", T),
          vf_preds      |-> stack(batches, "vf_preds", T),
          advantages    |-> stack(batches, "advantages", T),
          value_targets |-> stack(batches, "value_targets", T),
          actions       |-> sample_batch.actions,
          infos         |-> sample_batch.infos,
          dones         |-> sample_batch.dones ]

RECURSIVE gae_loop(_, _, _, _, _)
\* lines 83-122: the loop over the agents, from agent k on; acc holds the
\* sub-batches appended so far, the bootstrap values used and the number of
\* policy._value calls made
gae_loop(cfg, sample_batch, ir, k, acc) ==
    LET T  == Len(sample_batch.rewards)
        bs == bootstrap(cfg, sample_batch, k)
        fail(err, calls) ==
            [status |-> "raised", error |-> err,
             batches |-> acc.batches, last_r |-> acc.last_r,
             value_calls |-> acc.value_calls + calls, out |-> <<>>]
    IN  IF k > NumAgents
          THEN [status |-> "ok", error |-> "",
                batches |-> acc.batches, last_r |-> acc.last_r,
                value_calls |-> acc.value_calls,
                out |-> <<stacked_batch(sample_batch, acc.batches)>>]
        ELSE IF ir.status # "none" /\ AgentKey(k) \notin DOMAIN ir.cols
          THEN fail("KeyError", 0)
        ELSE IF k > Len(sample_batch.vf_preds[1])
          THEN fail("IndexError", 0)
        ELSE IF bs.error # ""
          THEN fail(bs.error, bs.value_calls)
        ELSE
          LET rewards  == agent_rewards(sample_batch, ir, k)
              vf_preds == [t \in 1..T |-> sample_batch.vf_preds[t][k]]
              actions  == [t \in 1..T |->
                             IF k <= Len(sample_batch.actions[t])
                               THEN <<sample_batch.actions[t][k]>> ELSE <<>>]
              ca == compute_advantages(rewards, vf_preds, bs.last_r,
                                       cfg.use_gae, cfg.use_critic)
              b  == [rewards |-> rewards, actions |-> actions,
                     vf_preds |-> vf_preds, advantages |-> ca.advantages,
                     value_targets |-> ca.value_targets]
          IN  gae_loop(cfg, sample_batch, ir, k + 1,
                       [batches |-> Append(acc.batches, b),
                        last_r |-> Append(acc.last_r, bs.last_r),
                        value_calls |-> acc.value_calls + bs.value_calls])

compute_gae_for_sample_batch(cfg, sample_batch) ==
    LET ir == infos_rewards(sample_batch)
    IN  IF ir.status = "raised"
          THEN [status |-> "raised", error |-> ir.error, batches |-> <<>>,
                last_r |-> <<>>, value_calls |-> 0, out |-> <<>>]
          ELSE gae_loop(cfg, sample_batch, ir, 1,
                        [batches |-> <<>>, last_r |-> <<>>, value_calls |-> 0])


(***************************************************************************)
(* Training batches and model outputs handed to ppo_surrogate_loss.        *)
(***************************************************************************)
\* policy.config: clip_param, vf_clip_param, vf_loss_coeff; entropy_coeff
clip_param == Rat(3, 10)

vf_clip_param == R(10)

vf_loss_coeff == R(1)

entropy_coeff == Rat(1, 10)

\* the data of one agent slot at flattened position t
Cell(pat, t) ==
    IF pat = 1
      THEN [adv |-> R(1), ratio |-> R(2), entropy |-> R(1),
            kl |-> Rat(t, 100), vf_out |-> R(t), vf_pred |-> R(0),
            vt |-> R(2)]
      ELSE [adv |-> R(-1), ratio |-> Rat(1, 2), entropy |-> R(2),
            kl |-> R(0), vf_out |-> R(20), vf_pred |-> R(0), vt |-> R(t)]

\* rnn: the model returned recurrent state; seq_lens: B sequence lengths,
\* padded to max_seq_len each; slot j of every per-agent tensor follows
\* pattern pats[j]; w_act is the width of logp/entropy/kl and of ACTION_LOGP,
\* w_vf the width of model.value_function(); advantages, value targets and
\* VF_PREDS come stacked by the postprocessor, NumAgents wide
MkLossInput(rnn, tm, seq_lens, L, pats, w_act, w_vf) ==
    LET N == Len(seq_lens) * L
        col(f, w) == [t \in 1..N |-> [j \in 1..w |-> Cell(pats[j], t)[f]]]
    IN  [ rnn |-> rnn, time_major |-> tm, seq_lens |-> seq_lens, N |-> N,
          logp_ratio   |-> col("ratio", w_act),
          entropy      |-> col("entropy", w_act),
          action_kl    |-> col("kl", w_act),
          value_fn_out |-> col("vf_out", w_vf),
          advantages   |-> col("adv", NumAgents),
          vf_preds     |-> col("vf_pred", NumAgents),
          value_targets |-> col("vt", NumAgents) ]

\* which pattern each agent slot follows: the same in every slot, or mixed
SlotPatterns == {<<1, 1, 1, 1>>, <<2, 2, 2, 1>>, <<1, 2, 1, 1>>,
                 <<2, 1, 1, 1>>}

\* <<w_act, w_vf>>: the configured width, or one of the two off by one
WidthPairs == {w \in Widths \X Widths : w[1] = NumAgents \/ w[2] = NumAgents}

\* <<pats, w>>: every slot pattern at the configured widths, and the first
\* pattern at each of the other widths
PatternWidths ==
    {<<pats, <<NumAgents, NumAgents>>>> : pats \in SlotPatterns}
    \cup {<<<<1, 1, 1, 1>>, w>> : w \in WidthPairs}

\* <<rnn, time_major, seq_lens>> for one or two sequences padded to L; without
\* recurrent state the batch has no padding and the mask is not built
LossShapes(L) ==
    {<<TRUE, tm, sl>> : tm \in BOOLEAN, sl \in UNION {[1..B -> 0..L] : B \in {1, 2}}}
    \cup {<<FALSE, FALSE, [b \in 1..B |-> L]>> : B \in {1, 2}}

(***************************************************************************)
(* ppo_surrogate_loss                                                      *)
(***************************************************************************)
\* sequence_mask(seq_lens, max_seq_len, time_major) reshaped to [-1]
sequence_mask(seq_lens, max_seq_len, time_major) ==
    LET B == Len(seq_lens)
    IN  [p \in 1..(B * max_seq_len) |->
           LET b == IF time_major THEN (p - 1) % B
                    ELSE (p - 1) \div max_seq_len
               t == IF time_major THEN (p - 1) \div B
                    ELSE (p - 1) % max_seq_len
           IN  t < seq_lens[b + 1]]

RECURSIVE masked_sum(_, _, _)
\* torch.sum(t[mask]), from position p on
masked_sum(t, mask, p) ==
    IF p > Len(t) THEN R(0)
    ELSE IF mask[p] THEN RAdd(t[p], masked_sum(t, mask, p + 1))
    ELSE masked_sum(t, mask, p + 1)

num_valid(mask) == Cardinality({p \in 1..Len(mask) : mask[p]})

\* lines 153-170: mean over the valid positions, or torch.mean
reduce_mean_valid(inp, t) ==
    IF inp.rnn
      THEN LET mask == sequence_mask(inp.seq_lens,
                                     inp.N \div Len(inp.seq_lens),
                                     inp.time_major)
           IN  RDiv(masked_sum(t, mask, 1), R(num_valid(mask)))
      ELSE RDiv(RSum(t), R(Len(t)))

\* lines 182-216: the loss terms of agent slot i
agent_loss(coeff, cfg, inp, i) ==
    LET P == 1..inp.N
        surrogate_loss == [t \in P |->
            RMin(RMul(inp.advantages[t][i], inp.logp_ratio[t][i]),
                 RMul(inp.advantages[t][i],
                      RClamp(inp.logp_ratio[t][i],
                             RSub(R(1), clip_param),
                             RAdd(R(1), clip_param))))]
        vf_loss == [t \in P |->
            LET vf_loss1 == RPow(RSub(inp.value_fn_out[t][i],
                                      inp.value_targets[t][i]), 2)
                vf_clipped == RAdd(inp.vf_preds[t][i],
                    RClamp(RSub(inp.value_fn_out[t][i], inp.vf_preds[t][i]),
                           RNeg(vf_clip_param), vf_clip_param))
                vf_loss2 == RPow(RSub(vf_clipped, inp.value_targets[t][i]), 2)
            IN  RMax(vf_loss1, vf_loss2)]
        base == [t \in P |->
            RSub(RAdd(RNeg(surrogate_loss[t]),
                      RMul(coeff, inp.action_kl[t][i])),
                 RMul(entropy_coeff, inp.entropy[t][i]))]
    IN  [ total_loss |->
            IF cfg.use_gae
              THEN reduce_mean_valid(inp,
                     [t \in P |-> RAdd(base[t], RMul(vf_loss_coeff, vf_loss[t]))])
              ELSE reduce_mean_valid(inp, base),
          mean_policy_loss |->
            reduce_mean_valid(inp, [t \in P |-> RNeg(surrogate_loss[t])]),
          mean_vf_loss |->
            IF cfg.use_gae THEN reduce_mean_valid(inp, vf_loss) ELSE R(0),
          mean_entropy |->
            reduce_mean_valid(inp, [t \in P |-> inp.entropy[t][i]]) ]

\* torch.mean where the code has torch.sum
stack_sum_mean(loss_data, f) ==
    RDiv(RSum([i \in 1..Len(loss_data) |-> loss_data[i][f]]),
         R(Len(loss_data)))

\* torch.sum(torch.stack(...)) and torch.mean(torch.stack(...)) over loss_data
stack_sum(loss_data, f) ==
    RSum([i \in 1..Len(loss_data) |-> loss_data[i][f]])

stack_mean(loss_data, f) ==
    RDiv(stack_sum(loss_data, f), R(Len(loss_data)))

\* the diagnostics stored on the policy; <<>> is an attribute not yet set
NoDiag == [total_loss |-> <<>>, mean_policy_loss |-> <<>>,
           mean_vf_loss |-> <<>>, mean_entropy |-> <<>>,
           vf_explained_var |-> <<>>, mean_kl |-> <<>>]

RECURSIVE loss_loop(_, _, _, _, _)
\* lines 181-226: the loop over range(len(train_batch[VF_PREDS][0])), from
\* slot i on; loss_data holds the entries appended so far.  Indexing slot i
\* of a tensor that has fewer slots raises IndexError
loss_loop(coeff, cfg, inp, i, loss_data) ==
    IF i > Len(inp.vf_preds[1])
      THEN [status |-> "ok", loss_data |-> loss_data]
    ELSE IF i > Len(inp.logp_ratio[1])
            \/ (cfg.use_gae /\ i > Len(inp.value_fn_out[1]))
      THEN [status |-> "raised", loss_data |-> loss_data]
    ELSE loss_loop(coeff, cfg, inp, i + 1,
                   Append(loss_data, agent_loss(coeff, cfg, inp, i)))

\* lines 228-243: the diagnostics stored on the policy and the value returned;
\* d is the policy's diagnostics before the call
store_diag(cfg, d, inp, loop, mean_kl) ==
    LET loss_data == loop.loss_data
        d1 == [d EXCEPT !.total_loss = <<stack_sum(loss_data, "total_loss")>>,
                        !.mean_policy_loss =
                            <<stack_mean(loss_data, "mean_policy_loss")>>]
    IN  IF loop.status = "raised"
          THEN [status |-> "raised", error |-> "IndexError",
                loss_data |-> loss_data, ret |-> <<>>, diag |-> d]
        \* torch.stack of the Python floats mean_vf_loss = 0.0
        ELSE IF ~cfg.use_gae
          THEN [status |-> "raised", error |-> "TypeError",
                loss_data |-> loss_data, ret |-> <<>>, diag |-> d1]
        ELSE [status |-> "ok", error |-> "", loss_data |-> loss_data,
              ret |-> d1.total_loss,
              diag |-> [d1 EXCEPT
                  !.mean_vf_loss = <<stack_mean(loss_data, "mean_vf_loss")>>,
                  !.mean_entropy = <<stack_mean(loss_data, "mean_entropy")>>,
                  !.vf_explained_var = <<"explained_variance">>,
                  !.mean_kl = <<mean_kl>>]]

\* lines 150-243
ppo_surrogate_loss(coeff, cfg, d, inp) ==
    store_diag(cfg, d, inp, loss_loop(coeff, cfg, inp, 1, <<>>),
               reduce_mean_valid(inp,
                   [t \in 1..inp.N |-> RSum(inp.action_kl[t])]))

\* kl_and_loss_stats: reads the stored diagnostics (AttributeError if unset)
kl_and_loss_stats(coeff, d) ==
    IF \E f \in DOMAIN d : d[f] = <<>>
      THEN [status |-> "raised", error |-> "AttributeError", ret |-> <<>>]
      ELSE [status |-> "ok", error |-> "",
            ret |-> << [cur_kl_coeff |-> coeff,
                        total_loss |-> d.total_loss[1],
                        policy_loss |-> d.mean_policy_loss[1],
                        vf_loss |-> d.mean_vf_loss[1],
                        vf_explained_var |-> d.vf_explained_var[1],
                        kl |-> d.mean_kl[1],
                        entropy |-> d.mean_entropy[1],
                        entropy_coeff |-> entropy_coeff] >>]


(***************************************************************************)
(* The policy as a state machine: construction, then calls of its four     *)
(* operations by the trainer.                                              *)
(***************************************************************************)
Configs == [use_gae : BOOLEAN, use_critic : BOOLEAN,
            kl_coeff : KLCoeffInits, kl_target : KLTargets]

\* setup_mixins: KLCoeffMixin.__init__ copies kl_coeff and kl_target
Init ==
    /\ config \in Configs
    /\ kl_coeff = config.kl_coeff
    /\ kl_target = config.kl_target
    /\ diag = NoDiag
    /\ call = NoCall
    /\ n_up = 0
    /\ n_down = 0

Postprocess(sample_batch) ==
    /\ call' = [op |-> "compute_gae_for_sample_batch",
                sample_batch |-> sample_batch,
                res |-> compute_gae_for_sample_batch(config, sample_batch)]
    /\ UNCHANGED <<config, kl_coeff, kl_target, diag, n_up, n_down>>

Loss(inp) ==
    \E res \in {ppo_surrogate_loss(kl_coeff, config, diag, inp)} :
        /\ diag' = res.diag
        /\ call' = [op |-> "ppo_surrogate_loss", inp |-> inp,
                    kl_coeff |-> kl_coeff, before |-> diag, res |-> res]
        /\ UNCHANGED <<config, kl_coeff, kl_target, n_up, n_down>>

Stats ==
    /\ call' = [op |-> "kl_and_loss_stats",
                res |-> kl_and_loss_stats(kl_coeff, diag)]
    /\ UNCHANGED <<config, kl_coeff, kl_target, diag, n_up, n_down>>

UpdateKL(sampled_kl) ==
    LET res == update_kl(kl_coeff, kl_target, sampled_kl)
    IN  /\ n_up + n_down < MaxUpdates
        /\ kl_coeff' = res.kl_coeff
        /\ call' = [op |-> "update_kl", sampled_kl |-> sampled_kl,
                    before |-> kl_coeff, ret |-> res.ret]
        /\ n_up' = IF RGreater(sampled_kl, RMul(R(2), kl_target))
                     THEN n_up + 1 ELSE n_up
        /\ n_down' = IF RLess(sampled_kl, RMul(Rat(1, 2), kl_target))
                       THEN n_down + 1 ELSE n_down
        /\ UNCHANGED <<config, kl_target, diag>>

\* the operations are called on a constructed policy; the arguments of a
\* call are built when the call is made
Constructed == config \in Configs

PostprocessStep ==
    /\ Constructed
    /\ \E kind \in {"float32", "rewards3"}, done \in BOOLEAN :
         \E sample_batch \in
              {MkSegment(<<1>>, kind, 1, 1, NumAgents, NumAgents, done)} :
           Postprocess(sample_batch)

LossStep ==
    /\ Constructed
    /\ \E rnn \in BOOLEAN :
         \E inp \in {MkLossInput(rnn, FALSE, <<1>>, 1, <<1, 1, 1, 1>>,
                                  NumAgents, NumAgents)} :
           Loss(inp)

UpdateKLStep ==
    /\ Constructed
    /\ \E sampled_kl \in KLSamples : UpdateKL(sampled_kl)

\* the trainer calls the policy's operations in any order
Next ==
    \/ PostprocessStep
    \/ LossStep
    \/ Stats
    \/ UpdateKLStep

Spec == Init /\ [][Next]_vars

\* one postprocessing call on any segment
NextGAE ==
    /\ Constructed
    /\ call.op = "none"
    /\ \E rew \in RewardSeqs, kind \in InfoKinds, p \in {0, 1}, q \in {1, 2},
          wa \in Widths, wv \in Widths, done \in BOOLEAN :
            \E sample_batch \in {MkSegment(rew, kind, p, q, wa, wv, done)} :
              Postprocess(sample_batch)

SpecGAE == Init /\ [][NextGAE]_vars

\* one loss evaluation on a freshly constructed policy
NextLoss ==
    /\ Constructed
    /\ call.op = "none"
    /\ \E L \in 1..MaxSeqLen :
         \E sh \in LossShapes(L), pw \in PatternWidths :
           \E inp \in {MkLossInput(sh[1], sh[2], sh[3], L, pw[1],
                                    pw[2][1], pw[2][2])} :
             Loss(inp)

SpecLoss == Init /\ [][NextLoss]_vars

(***************************************************************************)
(* Properties                                                              *)
(***************************************************************************)
IsGae == call.op = "compute_gae_for_sample_batch"

IsLoss == call.op = "ppo_surrogate_loss"

IsUpdate == call.op = "update_kl"

SegDone(seg) == seg.dones[Len(seg.dones)]

WidthsOk(seg) ==
    /\ Len(seg.actions[1]) = NumAgents
    /\ Len(seg.vf_preds[1]) = NumAgents

\* every info entry carries a reward for each of the agents 0, 1 and 2
Decomposed(seg) ==
    /\ seg.infos.dtype = "object"
    /\ \A t \in 1..Len(seg.infos.data) :
         /\ "rewards" \in DOMAIN seg.infos.data[t]
         /\ \A k \in 1..NumAgents :
              AgentKey(k) \in DOMAIN seg.infos.data[t].rewards

DecomposedReward(seg, k) ==
    [t \in 1..Len(seg.rewards) |-> seg.infos.data[t].rewards[AgentKey(k)]]

\* sum of discount^(s-t) * r[s] for s = t..T, plus discount^(T-t+1) * last_r
DiscountedReturn(r, last_r, t) ==
    LET T == Len(r)
    IN  RAdd(RSum([s \in 1..(T - t + 1) |->
                     RMul(RPow(gamma, s - 1), r[t + s - 1])]),
             RMul(RPow(gamma, T - t + 1), last_r))

\* C1: one update_kl(m) call leaves kl_coeff at 1.5*c if m > 2*kl_target, at
\* 0.5*c if m < 0.5*kl_target and at c otherwise (the two boundary values
\* included), and returns the kl_coeff stored after the call.
C1_UpdateKlTransition ==
    IsUpdate =>
      LET c  == call.before
          m  == call.sampled_kl
          hi == RMul(R(2), kl_target)
          lo == RMul(Rat(1, 2), kl_target)
      IN  /\ RGreater(m, hi) => kl_coeff = RMul(Rat(3, 2), c)
          /\ RLess(m, lo) => kl_coeff = RMul(Rat(1, 2), c)
          /\ (~RGreater(m, hi) /\ ~RLess(m, lo)) => kl_coeff = c
          /\ m = hi => kl_coeff = c
          /\ m = lo => kl_coeff = c
          /\ call.ret = kl_coeff

\* an update_kl call with m = 2*kl_target after an earlier increase
C1_Witness ==
    /\ IsUpdate
    /\ call.sampled_kl = RMul(R(2), kl_target)
    /\ call.before = Rat(3, 10)
    /\ kl_coeff = Rat(3, 10)
    /\ n_up = 1

\* C3: for a segment whose last dones flag is true the bootstrap value of
\* every agent is exactly 0 and policy._value is never called.
C3_DoneBootstrapZero ==
    (IsGae /\ SegDone(call.sample_batch)) =>
      /\ call.res.value_calls = 0
      /\ \A k \in 1..Len(call.res.last_r) : call.res.last_r[k] = R(0)
      /\ call.res.status = "ok" => Len(call.res.last_r) = NumAgents

\* a done segment postprocessed under use_gae, whose value estimates are not 0
C3_Witness ==
    /\ IsGae
    /\ SegDone(call.sample_batch)
    /\ config.use_gae
    /\ call.res.status = "ok"
    /\ Len(call.res.last_r) = NumAgents
    /\ \A k \in 1..NumAgents : call.sample_batch.value_out[k] # R(0)

\* C4: with missing or malformed per-agent reward info the postprocessor does
\* not raise and every agent's reward column is the shared rewards sequence.
\* (Stated for segments of the configured width whose bootstrap value can be
\* computed, so that nothing else makes the call raise.)
C4_MissingInfoFallsBack ==
    (/\ IsGae
     /\ ~Decomposed(call.sample_batch)
     /\ WidthsOk(call.sample_batch)
     /\ (SegDone(call.sample_batch) \/ config.use_gae)) =>
      /\ call.res.status = "ok"
      /\ \A k \in 1..NumAgents :
           call.res.batches[k].rewards = call.sample_batch.rewards

\* the three agent slots of every column hold the same data
SlotsIdentical(inp) ==
    \A t \in 1..inp.N : \A i \in 1..NumAgents :
      /\ inp.logp_ratio[t][i] = inp.logp_ratio[t][1]
      /\ inp.entropy[t][i] = inp.entropy[t][1]
      /\ inp.action_kl[t][i] = inp.action_kl[t][1]
      /\ inp.value_fn_out[t][i] = inp.value_fn_out[t][1]
      /\ inp.advantages[t][i] = inp.advantages[t][1]
      /\ inp.vf_preds[t][i] = inp.vf_preds[t][1]
      /\ inp.value_targets[t][i] = inp.value_targets[t][1]

SumOfThree(x) == RAdd(RAdd(x[1], x[2]), x[3])

C6_WidthMismatchFailsFast ==
    /\ (IsGae /\ ~WidthsOk(call.sample_batch)) =>
         /\ call.res.status = "raised"
         /\ call.res.batches = <<>>
         /\ call.res.out = <<>>
    /\ (/\ IsLoss
        /\ \/ Len(call.inp.logp_ratio[1]) # NumAgents
           \/ Len(call.inp.value_fn_out[1]) # NumAgents) =>
         /\ call.res.status = "raised"
         /\ call.res.loss_data = <<>>
         /\ call.res.ret = <<>>

\* C7: with recurrent state and no valid position under the mask the loss
\* raises: it returns nothing and stores no diagnostics on the policy.
\* (Stated for use_gae and the configured widths, so that the call does not
\* raise for another reason.)
C7_FullyMaskedAborts ==
    (/\ IsLoss
     /\ call.inp.rnn
     /\ \A b \in 1..Len(call.inp.seq_lens) : call.inp.seq_lens[b] = 0
     /\ config.use_gae
     /\ Len(call.inp.logp_ratio[1]) = NumAgents
     /\ Len(call.inp.value_fn_out[1]) = NumAgents) =>
      /\ call.res.status = "raised"
      /\ call.res.ret = <<>>
      /\ diag = call.before

\* C8: with use_gae = false postprocessing completes, whatever the last dones
\* flag is, and value_targets[t] of agent i is the discounted sum of agent
\* i's rewards from t on plus the discounted bootstrap value (0, the value
\* ValueNetworkMixin gives without GAE); the recorded value predictions do
\* not enter it.
C8_NoGaeValueTargets ==
    (/\ IsGae
     /\ ~config.use_gae
     /\ WidthsOk(call.sample_batch)
     /\ Decomposed(call.sample_batch)) =>
      /\ call.res.status = "ok"
      /\ \A k \in 1..NumAgents : \A t \in 1..Len(call.sample_batch.rewards) :
           call.res.out[1].value_targets[t][k] =
             DiscountedReturn(DecomposedReward(call.sample_batch, k), R(0), t)

\* the reward column the postprocessor gives agent k
AgentRewardColumn(seg, k) ==
    IF seg.infos.dtype = "float32" THEN seg.infos.data
    ELSE DecomposedReward(seg, k)

ExpectedAdvantages(seg, k) ==
    compute_advantages(AgentRewardColumn(seg, k),
                       [t \in 1..Len(seg.rewards) |-> seg.vf_preds[t][k]],
                       IF SegDone(seg) THEN R(0) ELSE seg.value_out[k],
                       config.use_gae, config.use_critic)

\* C9: in the batch returned, rewards, vf_preds, advantages and value_targets
\* have exactly 3 slots, slot i computed from agent i's reward column and the
\* i-th slot of the recorded value predictions; the other columns, the full
\* actions vector included, are those of the input segment.
C9_SlotsAndFrame ==
    (IsGae /\ call.res.status = "ok") =>
      LET seg == call.sample_batch
          out == call.res.out[1]
      IN  /\ \A t \in 1..Len(seg.rewards) :
               /\ Len(out.rewards[t]) = NumAgents
               /\ Len(out.vf_preds[t]) = NumAgents
               /\ Len(out.advantages[t]) = NumAgents
               /\ Len(out.value_targets[t]) = NumAgents
          /\ \A k \in 1..NumAgents :
               \E exp \in {ExpectedAdvantages(seg, k)} :
                 \A t \in 1..Len(seg.rewards) :
                   /\ out.rewards[t][k] = AgentRewardColumn(seg, k)[t]
                   /\ out.vf_preds[t][k] = seg.vf_preds[t][k]
                   /\ out.advantages[t][k] = exp.advantages[t]
                   /\ out.value_targets[t][k] = exp.value_targets[t]
          /\ out.actions = seg.actions
          /\ out.infos = seg.infos
          /\ out.dones = seg.dones
          /\ Len(out.rewards) = Len(seg.rewards)

\* a truncated two-step segment with different rewards per agent and a wider
\* value-prediction vector
C9_Witness ==
    /\ IsGae
    /\ call.res.status = "ok"
    /\ Decomposed(call.sample_batch)
    /\ Len(call.sample_batch.rewards) = 2
    /\ ~SegDone(call.sample_batch)
    /\ Len(call.sample_batch.vf_preds[1]) = NumAgents + 1
    /\ call.res.out[1].rewards[1][1] # call.res.out[1].rewards[1][2]
    /\ call.res.out[1].advantages[1][1] # call.res.out[1].advantages[1][3]

====
